---- MODULE Spec2Model ----
(***************************************************************************)
(* PharmStockHub: the stock ledger behind the REST API.                    *)
(*                                                                         *)
(* The route handlers (server/routes.ts, here src/unnamed/part_001), the   *)
(* zod schemas and the role table (shared/schema.ts, here                  *)
(* src/unnamed/part_000) and the auth middleware (src/server/auth.ts) are  *)
(* modelled from their code.  The storage object the handlers call         *)
(* (server/storage.ts) is not among the sources; its operations are        *)
(* modelled from the specification (section 4.1 and 5) and are marked so   *)
(* in the comments below.                                                  *)
(*                                                                         *)
(* Numbers that arrive in a request body are modelled by their value.  A   *)
(* movement quantity is carried in HALVES (3 stands for 1.5) so that       *)
(* parseInt's truncation is a real conversion.                             *)
(***************************************************************************)
EXTENDS Integers, Sequences, FiniteSets, TLC

\* ------------------------------------------------------------------ bounds
MaxItems == 1        \* stock items ever created (serial ids 1..MaxItems)
MaxQty == 2          \* the stock an item is created with, and the largest move
MaxLog == 2          \* movement records appended before the model stops moving
MaxRegistered == 2   \* registrations let through before the model stops registering
MaxRows == 2         \* rows the store's create operations insert, all tables together

\* ------------------------------------------------------------- vocabulary
NULL == 0                    \* SQL NULL in an integer column (ids are serial, >= 1)
NullText == "<null>"         \* SQL NULL in a text column
Procs == {1, 2}              \* concurrently served requests
NoProc == 0

Permissions ==
  {"canViewAll", "canAddItems", "canEditItems", "canRemoveItems", "canMoveStock",
   "canManageUsers", "canViewReports", "canAccessSettings", "canManageSpecialties",
   "canSeeAllSpecialties"}

\* shared/schema.ts ROLE_PERMISSIONS: the permissions each role holds
RoleGrants(role) ==
  CASE role = "ceo" -> Permissions
    [] role = "marketer" -> {"canAddItems", "canEditItems", "canRemoveItems", "canMoveStock"}
    [] role = "salesManager" -> {"canAddItems", "canEditItems", "canRemoveItems", "canMoveStock"}
    [] role = "stockManager" -> {"canAddItems", "canEditItems", "canRemoveItems", "canAccessSettings"}
    [] role = "admin" -> Permissions \ {"canMoveStock"}
    [] role = "medicalRep" -> {}
    [] OTHER -> {}

ROLE_PERMISSIONS == [role \in {"ceo", "marketer", "salesManager", "stockManager", "admin", "medicalRep"} |->
                       [perm \in Permissions |-> perm \in RoleGrants(role)]]

\* The users of the running system, by id: a sales manager (may move and
\* manage stock) and a medical rep (who only receives it).
SeedUsers == <<"salesManager", "medicalRep">>
UserIds == 1..Len(SeedUsers)
UnknownUser == Len(SeedUsers) + 1

VARIABLES
  users,         \* users table: id -> role
  stockItems,    \* stock_items table: id -> [quantity]
  nextItemId,    \* the serial of stock_items.id
  allocations,   \* stock_allocations table: <<stockItemId, userId>> -> quantity
  movements,     \* stock_movements table, in insertion order
  pc,            \* per request slot: "idle" or "commit" (inside the transaction)
  tx,            \* per request slot: the arguments of the running transaction
  lock,          \* the request slot that holds the persistence layer's writer section
  last,          \* the latest event at the API's surface: the response sent most
                 \* recently, or none once a request was taken into its transaction
  usernames,     \* users.username: id -> username (followed where registration runs)
  nextUserId,    \* the serial of users.id
  reg,           \* per request slot: the body of the registration being served
  tables,        \* the store's tables with all their columns: kind -> id -> row
  serials,       \* the store's id counters: kind -> next id
  hits           \* the rate limiter's store: client IP -> requests counted in the window

vars == <<users, stockItems, nextItemId, allocations, movements, pc, tx, lock, last,
          usernames, nextUserId, reg, tables, serials, hits>>
store == <<users, stockItems, nextItemId, allocations, movements>>
\* what the routes of stock, movements and users neither read nor write
side == <<usernames, nextUserId, reg, tables, serials, hits>>

NoArgs == [stockItemId |-> 0, quantity |-> 0, fromUserId |-> NULL, toUserId |-> 0,
           movedBy |-> 0, notes |-> NullText]
NoMovement == [id |-> 0, stockItemId |-> 0, fromUserId |-> NULL, toUserId |-> 0,
               quantity |-> 0, notes |-> NullText, movedBy |-> 0]

\* a response: the handler, the status class, the error of the taxonomy (spec 7),
\* the field the error names, and the movement in a 201 body
Response(op, status, error, field, body) ==
  [op |-> op, status |-> status, error |-> error, field |-> field, body |-> body]

NoResponse == Response("none", 0, "none", "", NoMovement)

\* ------------------------------------------------------- request bodies
\* A body is a record that carries only the fields the client sent.
Absent == [f \in {} |-> 0]
Has(b, f) == f \in DOMAIN b

Body(item, qty) == [stockItemId |-> item, quantity |-> qty]
From(u) == [fromUserId |-> u]
To(u) == [toUserId |-> u]

\* well-formed requests: one unit or MaxQty units, known holders
WholeQtys == {2, 2 * MaxQty}
NormalBodies ==
  {Body(i, q) @@ f @@ To(t) :
     i \in 1..MaxItems, q \in WholeQtys,
     f \in {Absent} \cup {From(u) : u \in UserIds}, t \in UserIds}
\* requests with one field out of the ordinary: a quantity that is not a
\* positive whole number, a destination or a source that is missing, falsy or
\* unknown, and notes
OddQtys == {-2, 0, 1, 3}            \* -1, 0, 0.5, 1.5
OddBodies ==
  {Body(1, q) @@ To(2) : q \in OddQtys}
  \cup {Body(1, 3) @@ From(1) @@ To(2)}
  \cup {Body(i, 2) @@ t : i \in 1..MaxItems, t \in {Absent, To(0), To(UnknownUser)}}
  \cup {Body(1, 2) @@ f @@ To(1) : f \in {From(0), From(UnknownUser)}}
  \cup {Body(1, 2) @@ To(2) @@ [notes |-> "demo"]}
MovementBodies == NormalBodies \cup OddBodies
ItemBodies == {Absent} \cup [quantity : {-1, MaxQty}]

\* parseInt of a number given in halves: the digits before the decimal point
ParseIntHalves(h) == IF h >= 0 THEN h \div 2 ELSE -((-h) \div 2)

\* -------------------------------------------------- auth.ts: hasPermission
\* storage.hasPermission is not among the sources: the role's flag in
\* ROLE_PERMISSIONS, false for an unknown role or permission (spec 4.1).
storageHasPermission(userId, permission) ==
  /\ userId \in DOMAIN users
  /\ users[userId] \in DOMAIN ROLE_PERMISSIONS
  /\ permission \in DOMAIN ROLE_PERMISSIONS[users[userId]]
  /\ ROLE_PERMISSIONS[users[userId]][permission]

\* the middleware letting every logged-in user through
hasPermission_AnyUser(userId, permission) ==
  userId \in DOMAIN users

\* the middleware without its shortcut for the ceo
hasPermission_NoCeoBypass(userId, permission) ==
  /\ userId \in DOMAIN users
  /\ storageHasPermission(userId, permission)

\* auth.ts hasPermission middleware: ceo passes, others by the table
hasPermission(userId, permission) ==
  /\ userId \in DOMAIN users
  /\ \/ users[userId] = "ceo"
     \/ storageHasPermission(userId, permission)

\* ------------------------------------------------ ledger reads (derived)
RECURSIVE SumOver(_, _)
SumOver(f, S) ==
  IF S = {} THEN 0
  ELSE LET k == CHOOSE e \in S : TRUE IN f[k] + SumOver(f, S \ {k})

AllocOf(al, item, user) == IF <<item, user>> \in DOMAIN al THEN al[<<item, user>>] ELSE 0
RowsOf(al, item) == {k \in DOMAIN al : k[1] = item}
SumAllocations(al, item) == SumOver(al, RowsOf(al, item))
CentralAvailable(items, al, item) == items[item].quantity - SumAllocations(al, item)

\* ------------------------------------- POST /api/movements: the handler
\* the handler, were it to lose the source user on the way
MovementData_DropsFrom(body, user) ==
  [stockItemId |-> body.stockItemId,
   fromUserId |-> NULL,
   quantity |-> IF body.quantity # 0 THEN ParseIntHalves(body.quantity) ELSE 0,
   movedBy |-> user]
  @@ (IF Has(body, "toUserId") THEN [toUserId |-> body.toUserId] ELSE Absent)
  @@ (IF Has(body, "notes") THEN [notes |-> body.notes] ELSE Absent)

\* the handler, were it to send stock to the requester when no destination is given
MovementData_DefaultsTo(body, user) ==
  [stockItemId |-> body.stockItemId,
   fromUserId |-> IF Has(body, "fromUserId") /\ body.fromUserId # 0
                  THEN body.fromUserId ELSE NULL,
   quantity |-> IF body.quantity # 0 THEN ParseIntHalves(body.quantity) ELSE 0,
   movedBy |-> user,
   toUserId |-> IF Has(body, "toUserId") THEN body.toUserId ELSE user]
  @@ (IF Has(body, "notes") THEN [notes |-> body.notes] ELSE Absent)

\* routes.ts 437-453: numeric conversion of the body, movedBy from the session
MovementData(body, user) ==
  [stockItemId |-> body.stockItemId,
   fromUserId |-> IF Has(body, "fromUserId") /\ body.fromUserId # 0
                  THEN body.fromUserId ELSE NULL,
   quantity |-> IF body.quantity # 0 THEN ParseIntHalves(body.quantity) ELSE 0,
   movedBy |-> user]
  @@ (IF Has(body, "toUserId") THEN [toUserId |-> body.toUserId] ELSE Absent)
  @@ (IF Has(body, "notes") THEN [notes |-> body.notes] ELSE Absent)

\* insertStockMovementSchema.parse: stockItemId, toUserId, quantity and movedBy
\* are NOT NULL integer columns; fromUserId and notes are optional.  The schema
\* puts no lower bound on quantity.
MovementSchemaOk(data) ==
  /\ Has(data, "stockItemId") /\ Has(data, "quantity") /\ Has(data, "movedBy")
  /\ Has(data, "toUserId")

\* the handler, were it to record the destination as the mover
MovementArgs_WrongMover(data) ==
  [stockItemId |-> data.stockItemId,
   quantity |-> data.quantity,
   fromUserId |-> data.fromUserId,
   toUserId |-> data.toUserId,
   movedBy |-> data.toUserId,
   notes |-> IF Has(data, "notes") THEN data.notes ELSE NullText]

\* the handler, were it to take the requester as the source when none is named
MovementArgs_FromMover(data) ==
  [stockItemId |-> data.stockItemId,
   quantity |-> data.quantity,
   fromUserId |-> IF data.fromUserId = NULL THEN data.movedBy ELSE data.fromUserId,
   toUserId |-> data.toUserId,
   movedBy |-> data.movedBy,
   notes |-> IF Has(data, "notes") THEN data.notes ELSE NullText]

\* routes.ts 459-466: the arguments handed to executeStockMovementTransaction
MovementArgs(data) ==
  [stockItemId |-> data.stockItemId,
   quantity |-> data.quantity,
   fromUserId |-> data.fromUserId,
   toUserId |-> data.toUserId,
   movedBy |-> data.movedBy,
   notes |-> IF Has(data, "notes") THEN data.notes ELSE NullText]

\* ------------------- storage.executeStockMovementTransaction (spec 4.1)
\* step 2: what the source holds
Available(items, al, a) ==
  IF a.fromUserId = NULL
  THEN CentralAvailable(items, al, a.stockItemId)
  ELSE AllocOf(al, a.stockItemId, a.fromUserId)

\* the transaction, were it to validate the quantity before it loads the item
TxCheck_QuantityFirst(items, us, al, a) ==
  IF a.quantity <= 0 THEN "InvalidQuantity"
  ELSE IF a.stockItemId \notin DOMAIN items THEN "NotFound"
  ELSE IF a.toUserId \notin DOMAIN us THEN "UnknownUser"
  ELSE IF a.quantity > Available(items, al, a) THEN "InsufficientStock"
  ELSE "ok"

\* inputs and steps 1-3: the error the transaction raises, or "ok"
TxCheck(items, us, al, a) ==
  IF a.stockItemId \notin DOMAIN items THEN "NotFound"
  ELSE IF a.quantity <= 0 THEN "InvalidQuantity"
  ELSE IF a.toUserId \notin DOMAIN us THEN "UnknownUser"
  ELSE IF a.quantity > Available(items, al, a) THEN "InsufficientStock"
  ELSE "ok"

\* the taxonomy of spec 7 and the field an InvalidArgument names
ErrorKind(err) == IF err \in {"InvalidQuantity", "UnknownUser"} THEN "InvalidArgument" ELSE err
ErrorField(err) ==
  CASE err = "InvalidQuantity" -> "quantity"
    [] err = "UnknownUser" -> "toUserId"
    [] err = "NotFound" -> "stockItemId"
    [] OTHER -> ""

\* step 4, were it to leave the source as it is
DecrementSource_Skipped(al, a) == al

\* step 4: the central pool is derived, only a user's row is reduced
DecrementSource(al, a) ==
  IF a.fromUserId = NULL \/ <<a.stockItemId, a.fromUserId>> \notin DOMAIN al THEN al
  ELSE [al EXCEPT ![<<a.stockItemId, a.fromUserId>>] = @ - a.quantity]

\* step 5, were it to overwrite the destination's row
IncrementDest_Overwrites(al, a) ==
  IF <<a.stockItemId, a.toUserId>> \in DOMAIN al
  THEN [al EXCEPT ![<<a.stockItemId, a.toUserId>>] = a.quantity]
  ELSE al @@ (<<a.stockItemId, a.toUserId>> :> a.quantity)

\* step 5: increment, or create, the destination's row
IncrementDest(al, a) ==
  IF <<a.stockItemId, a.toUserId>> \in DOMAIN al
  THEN [al EXCEPT ![<<a.stockItemId, a.toUserId>>] = @ + a.quantity]
  ELSE al @@ (<<a.stockItemId, a.toUserId>> :> a.quantity)

\* step 6: the record appended to the log (id from the table's serial)
NewMovement(log, a) ==
  [id |-> Len(log) + 1, stockItemId |-> a.stockItemId, fromUserId |-> a.fromUserId,
   toUserId |-> a.toUserId, quantity |-> a.quantity, notes |-> a.notes,
   movedBy |-> a.movedBy]

\* a failure that leaves behind what was written so far
Rollback_KeepsPartial(before, partial) == partial

\* a persistence failure inside the transaction undoes what it wrote
Rollback(before, partial) == before

\* where the persistence layer may fail: not at all, after step 4, after step 5
FailPoints == {"none", "afterSource", "afterDest"}

\* steps 4-6 as one unit: the tables after the transaction ended
TxApply(al, log, a, failAt) ==
  LET s1 == DecrementSource(al, a)
      s2 == IncrementDest(s1, a)
      before == [al |-> al, log |-> log]
  IN CASE failAt = "none" -> [al |-> s2, log |-> Append(log, NewMovement(log, a))]
       [] failAt = "afterSource" -> Rollback(before, [al |-> s1, log |-> log])
       [] failAt = "afterDest" -> Rollback(before, [al |-> s2, log |-> log])

\* no writer section at all
CanEnter_Always == TRUE

\* section 5: one writer at a time inside the persistence layer
CanEnter == lock = NoProc

\* ------------------------------------------------------------------ Init
NoReg == Absent
Kinds == {"specialty", "user", "stockItem", "movement"}
Ips == {"10.0.0.1", "10.0.0.2"}
SideInit ==
  /\ hits = [ip \in Ips |-> 0]
  /\ usernames = Absent
  /\ nextUserId = 1
  /\ reg = [p \in Procs |-> NoReg]
  /\ tables = [k \in Kinds |-> Absent]
  /\ serials = [k \in Kinds |-> 1]

Init ==
  /\ SideInit
  /\ users = [id \in UserIds |-> SeedUsers[id]]
  /\ stockItems = Absent
  /\ nextItemId = 1
  /\ allocations = Absent
  /\ movements = <<>>
  /\ pc = [p \in Procs |-> "idle"]
  /\ tx = [p \in Procs |-> NoArgs]
  /\ lock = NoProc
  /\ last = NoResponse

\* --------------------------------------------------------------- actions
\* request slots are anonymous: a new request takes the lowest idle one
FreeSlot(p) == pc[p] = "idle" /\ \A q \in Procs : q < p => pc[q] # "idle"

\* POST /api/movements (routes.ts 453-466): what the handler makes of a body
\* in the present state - the arguments of the call and the error it ends in:
\* "Schema" from insertStockMovementSchema.parse, one of the transaction's, or "ok"
Handled(body, user) ==
  LET data == MovementData(body, user) IN
  IF ~MovementSchemaOk(data) THEN [error |-> "Schema", args |-> NoArgs]
  ELSE LET a == MovementArgs(data) IN
       [error |-> TxCheck(stockItems, users, allocations, a), args |-> a]

\* the 400 of a rejected movement request
Rejection(err) ==
  IF err = "Schema"
  THEN Response("postMovement", 400, "InvalidArgument", "toUserId", NoMovement)
  ELSE Response("postMovement", 400, ErrorKind(err), ErrorField(err), NoMovement)

\* POST /api/movements (routes.ts 431-474) up to the point where the
\* transaction holds the writer section; every rejection answers here.
PostMovement(p, user, body) ==
  /\ FreeSlot(p)
  /\ hasPermission(user, "canMoveStock")
  /\ LET h == Handled(body, user) IN
     /\ h.error # "Schema" => CanEnter
     /\ IF h.error # "ok"
        THEN /\ last' = Rejection(h.error)
             /\ UNCHANGED <<store, pc, tx, lock>>
        ELSE /\ Len(movements) < MaxLog
             /\ pc' = [pc EXCEPT ![p] = "commit"]
             /\ tx' = [tx EXCEPT ![p] = h.args]
             /\ lock' = p
             /\ last' = NoResponse
             /\ UNCHANGED store

\* the transaction's writes, its end, and the handler's 201 (routes.ts 468)
\* or the error passed to next() (routes.ts 469-472)
TxCommit(p, failAt) ==
  /\ pc[p] = "commit"
  /\ LET r == TxApply(allocations, movements, tx[p], failAt) IN
     /\ allocations' = r.al
     /\ movements' = r.log
     /\ last' = IF failAt = "none"
                THEN Response("postMovement", 201, "none", "", r.log[Len(r.log)])
                ELSE Response("postMovement", 500, "Internal", "", NoMovement)
  /\ pc' = [pc EXCEPT ![p] = "idle"]
  /\ tx' = [tx EXCEPT ![p] = NoArgs]
  /\ lock' = NoProc
  /\ UNCHANGED <<users, stockItems, nextItemId>>

\* ------------------------------------------ stock items: the handlers
\* routes.ts 280-289 / 321-328: the multipart field, converted when present
ItemData(body) ==
  IF Has(body, "quantity") THEN [quantity |-> body.quantity] ELSE Absent

\* extendedInsertStockItemSchema (schema.ts 137): quantity is required, >= 0
ItemSchemaOk(data) == Has(data, "quantity") /\ data.quantity >= 0

\* storage.createStockItem / updateStockItem / deleteStockItem (not among the
\* sources): insert with the given fields, merge the given fields, remove the row
createStockItem(items, id, data) == items @@ (id :> [quantity |-> data.quantity])
updateStockItem(items, id, data) ==
  IF Has(data, "quantity") THEN [items EXCEPT ![id] = [quantity |-> data.quantity]] ELSE items
deleteStockItem(items, id) == [k \in DOMAIN items \ {id} |-> items[k]]

\* POST /api/stock-items (routes.ts 272-309)
PostStockItem(user, body) ==
  /\ hasPermission(user, "canAddItems")
  /\ LET data == ItemData(body) IN
     IF ~ItemSchemaOk(data)
     THEN /\ last' = Response("postStockItem", 400, "InvalidArgument", "quantity", NoMovement)
          /\ UNCHANGED <<store, pc, tx, lock>>
     ELSE /\ CanEnter
          /\ nextItemId <= MaxItems
          /\ stockItems' = createStockItem(stockItems, nextItemId, data)
          /\ nextItemId' = nextItemId + 1
          /\ last' = Response("postStockItem", 201, "none", "", NoMovement)
          /\ UNCHANGED <<users, allocations, movements, pc, tx, lock>>

\* PUT /api/stock-items/:id (routes.ts 311-373): the converted fields go to
\* storage.updateStockItem as they are
PutStockItem(user, id, body) ==
  /\ hasPermission(user, "canEditItems")
  /\ CanEnter
  /\ LET data == ItemData(body) IN
     IF id \notin DOMAIN stockItems
     THEN /\ last' = Response("putStockItem", 404, "NotFound", "", NoMovement)
          /\ UNCHANGED <<store, pc, tx, lock>>
     ELSE /\ stockItems' = updateStockItem(stockItems, id, data)
          /\ last' = Response("putStockItem", 200, "none", "", NoMovement)
          /\ UNCHANGED <<users, nextItemId, allocations, movements, pc, tx, lock>>

\* the delete handler, were it to purge the item's movement records as well
DeleteStockItem_Purges(user, id) ==
  /\ hasPermission(user, "canRemoveItems")
  /\ CanEnter
  /\ IF id \notin DOMAIN stockItems
     THEN /\ last' = Response("deleteStockItem", 404, "NotFound", "", NoMovement)
          /\ UNCHANGED <<store, pc, tx, lock>>
     ELSE /\ stockItems' = deleteStockItem(stockItems, id)
          /\ movements' = SelectSeq(movements, LAMBDA m : m.stockItemId # id)
          /\ last' = Response("deleteStockItem", 204, "none", "", NoMovement)
          /\ UNCHANGED <<users, nextItemId, allocations, pc, tx, lock>>

\* DELETE /api/stock-items/:id (routes.ts 375-408)
DeleteStockItem(user, id) ==
  /\ hasPermission(user, "canRemoveItems")
  /\ CanEnter
  /\ IF id \notin DOMAIN stockItems
     THEN /\ last' = Response("deleteStockItem", 404, "NotFound", "", NoMovement)
          /\ UNCHANGED <<store, pc, tx, lock>>
     ELSE /\ stockItems' = deleteStockItem(stockItems, id)
          /\ last' = Response("deleteStockItem", 204, "none", "", NoMovement)
          /\ UNCHANGED <<users, nextItemId, allocations, movements, pc, tx, lock>>

\* GET /api/movements (routes.ts 422-429)
GetMovements(user) ==
  /\ user \in DOMAIN users
  /\ last' = Response("getMovements", 200, "none", "", NoMovement)
  /\ UNCHANGED <<store, pc, tx, lock>>

\* ------------------------------------------------------ specifications
Move ==
  \/ \E p \in Procs, u \in UserIds, b \in MovementBodies : PostMovement(p, u, b)
  \/ \E p \in Procs, f \in FailPoints : TxCommit(p, f)

Next ==
  \/ Move /\ UNCHANGED side
  \/ \E u \in UserIds, b \in ItemBodies : PostStockItem(u, b) /\ UNCHANGED side
  \/ \E u \in UserIds, id \in 1..MaxItems, b \in ItemBodies : PutStockItem(u, id, b) /\ UNCHANGED side
  \/ \E u \in UserIds, id \in 1..MaxItems : DeleteStockItem(u, id) /\ UNCHANGED side
  \/ \E u \in UserIds : GetMovements(u) /\ UNCHANGED side

Spec == Init /\ [][Next]_vars

\* ---------------------------------------- the rest of the API (routes.ts)
NoSession == 0               \* a request without a logged-in session

\* the handlers that touch no table of the ledger: the route, and what its
\* middleware asks for ("none", a session, or a permission)
OtherRoutes ==
  {[route |-> "GET /api/system-settings", needs |-> "none"],
   [route |-> "POST /api/system-settings", needs |-> "none"],
   [route |-> "GET /api/specialties", needs |-> "session"],
   [route |-> "POST /api/specialties", needs |-> "canManageSpecialties"],
   [route |-> "PUT /api/specialties/:id", needs |-> "canManageSpecialties"],
   [route |-> "DELETE /api/specialties/:id", needs |-> "canManageSpecialties"],
   [route |-> "GET /api/categories", needs |-> "session"],
   [route |-> "POST /api/categories", needs |-> "canAddItems"],
   [route |-> "PUT /api/categories/:id", needs |-> "canAddItems"],
   [route |-> "DELETE /api/categories/:id", needs |-> "canAddItems"],
   [route |-> "GET /api/stock-items", needs |-> "session"],
   [route |-> "GET /api/stock-items/:id", needs |-> "session"],
   [route |-> "GET /api/allocations", needs |-> "session"],
   [route |-> "GET /api/users", needs |-> "session"],
   [route |-> "GET /api/users/:id", needs |-> "session"]}

\* what the middleware chain of a route lets through
Admitted(session, needs) ==
  \/ needs = "none"
  \/ /\ session \in DOMAIN users
     /\ needs = "session" \/ hasPermission(session, needs)

\* a handler of OtherRoutes: it reads or writes specialties, categories or
\* settings, or reads the ledger, and answers
Serve(session, r) ==
  /\ Admitted(session, r.needs)
  /\ last' = Response("other", 200, "none", "", NoMovement)
  /\ UNCHANGED <<store, pc, tx, lock>>

\* storage.updateUser / deleteUser (not among the sources): merge the given
\* fields, remove the row
updateUser(us, id, data) == IF Has(data, "role") THEN [us EXCEPT ![id] = data.role] ELSE us
deleteUser(us, id) == [k \in DOMAIN us \ {id} |-> us[k]]

UserBodies == {Absent, [role |-> "stockManager"]}

\* PUT /api/users/:id (routes.ts 519-547)
PutUser(session, id, body) ==
  /\ hasPermission(session, "canManageUsers")
  /\ CanEnter
  /\ IF id \notin DOMAIN users
     THEN /\ last' = Response("putUser", 404, "NotFound", "", NoMovement)
          /\ UNCHANGED <<store, pc, tx, lock>>
     ELSE /\ users' = updateUser(users, id, body)
          /\ last' = Response("putUser", 200, "none", "", NoMovement)
          /\ UNCHANGED <<stockItems, nextItemId, allocations, movements, pc, tx, lock>>

\* the delete handler, were the user's allocations to go with the user
DeleteUser_Cascades(session, id) ==
  /\ hasPermission(session, "canManageUsers")
  /\ CanEnter
  /\ id # session /\ id \in DOMAIN users
  /\ users' = deleteUser(users, id)
  /\ allocations' = [k \in {j \in DOMAIN allocations : j[2] # id} |-> allocations[k]]
  /\ last' = Response("deleteUser", 204, "none", "", NoMovement)
  /\ UNCHANGED <<stockItems, nextItemId, movements, pc, tx, lock>>

\* DELETE /api/users/:id (routes.ts 550-574)
DeleteUser(session, id) ==
  /\ hasPermission(session, "canManageUsers")
  /\ CanEnter
  /\ IF id = session
     THEN /\ last' = Response("deleteUser", 400, "InvalidArgument", "id", NoMovement)
          /\ UNCHANGED <<store, pc, tx, lock>>
     ELSE IF id \notin DOMAIN users
     THEN /\ last' = Response("deleteUser", 404, "NotFound", "", NoMovement)
          /\ UNCHANGED <<store, pc, tx, lock>>
     ELSE /\ users' = deleteUser(users, id)
          /\ last' = Response("deleteUser", 204, "none", "", NoMovement)
          /\ UNCHANGED <<stockItems, nextItemId, allocations, movements, pc, tx, lock>>

\* the whole API, served to a ceo (who may do everything) and a medical rep
ApiUsers == <<"ceo", "medicalRep">>
ApiBodies ==
  {Body(i, 2) @@ To(2) : i \in 1..MaxItems}
  \cup {Body(i, 2) @@ From(2) @@ To(1) : i \in 1..MaxItems}

InitApi ==
  /\ SideInit
  /\ users = [id \in 1..Len(ApiUsers) |-> ApiUsers[id]]
  /\ stockItems = Absent
  /\ nextItemId = 1
  /\ allocations = Absent
  /\ movements = <<>>
  /\ pc = [p \in Procs |-> "idle"]
  /\ tx = [p \in Procs |-> NoArgs]
  /\ lock = NoProc
  /\ last = NoResponse

NextApi ==
  \/ \E p \in Procs, u \in UserIds, b \in ApiBodies : PostMovement(p, u, b) /\ UNCHANGED side
  \/ \E p \in Procs, f \in FailPoints : TxCommit(p, f) /\ UNCHANGED side
  \/ \E u \in UserIds, b \in ItemBodies : PostStockItem(u, b) /\ UNCHANGED side
  \/ \E u \in UserIds, id \in 1..MaxItems, b \in ItemBodies : PutStockItem(u, id, b) /\ UNCHANGED side
  \/ \E u \in UserIds, id \in 1..MaxItems : DeleteStockItem(u, id) /\ UNCHANGED side
  \/ \E u \in UserIds : GetMovements(u) /\ UNCHANGED side
  \/ \E u \in UserIds, id \in UserIds, b \in UserBodies : PutUser(u, id, b) /\ UNCHANGED side
  \/ \E u \in UserIds, id \in UserIds : DeleteUser(u, id) /\ UNCHANGED side
  \/ \E u \in UserIds \cup {NoSession}, r \in OtherRoutes : Serve(u, r) /\ UNCHANGED side

SpecApi == InitApi /\ [][NextApi]_vars

\* ------------------------------------- the middleware in front of a route
\* auth.ts 116-142: isAuthenticated, then hasPermission(permission): the
\* status the chain answers with, or 0 when it calls next()
Gate(session, permission) ==
  IF session \notin DOMAIN users THEN 401
  ELSE IF hasPermission(session, permission) THEN 0
  ELSE 403

Denial(op, status) ==
  Response(op, status, IF status = 401 THEN "Unauthorized" ELSE "Forbidden", "", NoMovement)

\* POST /api/movements with its middleware (routes.ts 431-436)
ApiPostMovement(p, session, body) ==
  LET status == Gate(session, "canMoveStock") IN
  IF status # 0
  THEN /\ FreeSlot(p)
       /\ last' = Denial("postMovement", status)
       /\ UNCHANGED <<store, pc, tx, lock>>
  ELSE PostMovement(p, session, body)

\* a route behind hasPermission(permission), up to the handler
PermissionNames == Permissions \cup {"canFly"}
Authorize(session, permission) ==
  /\ last' = Response("hasPermission", Gate(session, permission), "none", "", NoMovement)
  /\ UNCHANGED <<store, pc, tx, lock>>

\* one user of every role of the table, and one of a role it does not know
AuthUsers == <<"ceo", "marketer", "salesManager", "stockManager", "admin", "medicalRep", "intern">>
Sessions == {NoSession} \cup (1..Len(AuthUsers))
AuthBodies == {Body(i, 2) @@ To(2) : i \in 1..MaxItems}

InitAuth ==
  /\ SideInit
  /\ users = [id \in 1..Len(AuthUsers) |-> AuthUsers[id]]
  /\ stockItems = Absent
  /\ nextItemId = 1
  /\ allocations = Absent
  /\ movements = <<>>
  /\ pc = [p \in Procs |-> "idle"]
  /\ tx = [p \in Procs |-> NoArgs]
  /\ lock = NoProc
  /\ last = NoResponse

NextAuth ==
  \/ \E p \in Procs, s \in Sessions, b \in AuthBodies : ApiPostMovement(p, s, b) /\ UNCHANGED side
  \/ \E p \in Procs, f \in FailPoints : TxCommit(p, f) /\ UNCHANGED side
  \/ \E b \in ItemBodies : PostStockItem(1, b) /\ UNCHANGED side
  \/ \E s \in Sessions, perm \in PermissionNames : Authorize(s, perm) /\ UNCHANGED side

SpecAuth == InitAuth /\ [][NextAuth]_vars

\* ------------------------------------------ the scenario of the spec (8)
\* a mover, the two receivers U1 and U2, and a second mover
ScenarioUsers == <<"salesManager", "medicalRep", "medicalRep", "ceo">>
U1 == 2
U2 == 3
ScenarioMovers == {1, 4}
Move30 == Body(1, 60) @@ To(U1)
Move10 == Body(1, 20) @@ From(U1) @@ To(U2)
Move25 == {Body(1, 50) @@ From(U1) @@ To(t) : t \in {1, U2}}
\* the same moves with U1 and U2 exchanged
Mirrored ==
  {Body(1, 60) @@ To(U2), Body(1, 20) @@ From(U2) @@ To(U1), Body(1, 50) @@ From(U2) @@ To(U1)}
ScenarioBodies == {Move30, Move10} \cup Move25 \cup Mirrored

InitScenario ==
  /\ SideInit
  /\ users = [id \in 1..Len(ScenarioUsers) |-> ScenarioUsers[id]]
  /\ stockItems = (1 :> [quantity |-> 100])
  /\ nextItemId = 2
  /\ allocations = Absent
  /\ movements = <<>>
  /\ pc = [p \in Procs |-> "idle"]
  /\ tx = [p \in Procs |-> NoArgs]
  /\ lock = NoProc
  /\ last = NoResponse

NextScenario ==
  \/ \E p \in Procs, u \in ScenarioMovers, b \in ScenarioBodies : PostMovement(p, u, b) /\ UNCHANGED side
  \/ \E p \in Procs, f \in FailPoints : TxCommit(p, f) /\ UNCHANGED side
  \/ GetMovements(1) /\ UNCHANGED side

SpecScenario == InitScenario /\ [][NextScenario]_vars

\* ------------------------------------ POST /api/register (auth.ts 155-185)
\* one user is there from the start
RegisterSeed == <<[username |-> "ann", role |-> "admin"]>>
\* what clients send: a username, and a role some of them ask for
RegisterBodies ==
  {[username |-> "ann"], [username |-> "bob"], [username |-> "eve"],
   [username |-> "ann", role |-> "admin"], [username |-> "cat", role |-> "ceo"],
   [username |-> "dan", role |-> "stockManager"]}

\* storage.getUserByUsername (not among the sources): some row has the name
getUserByUsername(names, username) == \E id \in DOMAIN names : names[id] = username

\* the handler, were it to pass on the role of the body
RegisterData_RoleFromBody(body) ==
  [username |-> body.username,
   role |-> IF Has(body, "role") THEN body.role ELSE "medicalRep"]

\* auth.ts 166-173: the row handed to storage.createUser; the role is fixed
RegisterData(body) ==
  [username |-> body.username, role |-> "medicalRep"]

\* schema.ts 16: users.username is unique, an insert of a taken name fails
UsernameFree(names, username) == ~getUserByUsername(names, username)

\* auth.ts 157-164: the lookup; a taken name is answered 400, a free one goes
\* on to hashing the password, during which other requests are served
RegisterCheck(p, body) ==
  /\ FreeSlot(p)
  /\ nextUserId <= Len(RegisterSeed) + MaxRegistered
  /\ IF getUserByUsername(usernames, body.username)
     THEN /\ last' = Response("register", 400, "UsernameExists", "", NoMovement)
          /\ UNCHANGED <<pc, reg>>
     ELSE /\ pc' = [pc EXCEPT ![p] = "create"]
          /\ reg' = [reg EXCEPT ![p] = body]
          /\ last' = NoResponse
  /\ UNCHANGED <<store, tx, lock, hits, usernames, nextUserId, tables, serials>>

\* auth.ts 166-184: storage.createUser and the answer; an insert the table
\* refuses is thrown and handed to next(error)
RegisterCreate(p) ==
  /\ pc[p] = "create"
  /\ LET data == RegisterData(reg[p]) IN
     IF UsernameFree(usernames, data.username)
     THEN /\ users' = users @@ (nextUserId :> data.role)
          /\ usernames' = usernames @@ (nextUserId :> data.username)
          /\ nextUserId' = nextUserId + 1
          /\ last' = Response("register", 201, "none", "", NoMovement)
     ELSE /\ last' = Response("register", 500, "Internal", "", NoMovement)
          /\ UNCHANGED <<users, usernames, nextUserId>>
  /\ pc' = [pc EXCEPT ![p] = "idle"]
  /\ reg' = [reg EXCEPT ![p] = NoReg]
  /\ UNCHANGED <<stockItems, nextItemId, allocations, movements, tx, lock, tables, serials, hits>>

InitRegister ==
  /\ hits = [ip \in Ips |-> 0]
  /\ users = [id \in 1..Len(RegisterSeed) |-> RegisterSeed[id].role]
  /\ usernames = [id \in 1..Len(RegisterSeed) |-> RegisterSeed[id].username]
  /\ nextUserId = Len(RegisterSeed) + 1
  /\ reg = [p \in Procs |-> NoReg]
  /\ tables = [k \in Kinds |-> Absent]
  /\ serials = [k \in Kinds |-> 1]
  /\ stockItems = Absent
  /\ nextItemId = 1
  /\ allocations = Absent
  /\ movements = <<>>
  /\ pc = [p \in Procs |-> "idle"]
  /\ tx = [p \in Procs |-> NoArgs]
  /\ lock = NoProc
  /\ last = NoResponse

NextRegister ==
  \/ \E p \in Procs, b \in RegisterBodies : RegisterCheck(p, b)
  \/ \E p \in Procs : RegisterCreate(p)

SpecRegister == InitRegister /\ [][NextRegister]_vars

\* ------------------- GET /api/stock-items/expiring (routes.ts 247-255)
\* time is counted in days; the request is made on one of these days
Nows == {10}
\* stock_items.expiry (schema.ts 51-64): NULL, or a day before, on or after today
Expiries == {NULL, 9, 10, 11, 12, 40, 41}
\* the query string: no days parameter, an empty one, or some text
DayQueries ==
  {Absent} \cup [days : {"", "1", "2", "30", "0", "-1", "1.5", "abc"}]

\* z.coerce.number (routes.ts 31): JavaScript's Number() of the text, in halves
NotANumber == [nan |-> TRUE, halves |-> 0]
Halves(h) == [nan |-> FALSE, halves |-> h]
NumberOf(text) ==
  CASE text = "" -> Halves(0)
    [] text = "0" -> Halves(0)
    [] text = "1" -> Halves(2)
    [] text = "2" -> Halves(4)
    [] text = "30" -> Halves(60)
    [] text = "-1" -> Halves(-2)
    [] text = "1.5" -> Halves(3)
    [] OTHER -> NotANumber

\* the schema, were it to default only a parameter that is not there
DaysQuery_NoDefault(query) ==
  LET raw == IF ~Has(query, "days") THEN "30" ELSE query.days
      n == NumberOf(raw) IN
  IF n.nan \/ n.halves % 2 # 0 \/ n.halves < 2
  THEN [ok |-> FALSE, days |-> 0]
  ELSE [ok |-> TRUE, days |-> n.halves \div 2]

\* daysQuerySchema.parse (routes.ts 28-33): "30" for an absent or empty
\* parameter, then a number that is an integer and at least 1
DaysQuery(query) ==
  LET raw == IF ~Has(query, "days") \/ query.days = "" THEN "30" ELSE query.days
      n == NumberOf(raw) IN
  IF n.nan \/ n.halves % 2 # 0 \/ n.halves < 2
  THEN [ok |-> FALSE, days |-> 0]
  ELSE [ok |-> TRUE, days |-> n.halves \div 2]

\* storage.getExpiringItems (not among the sources; spec 4.2): the items whose
\* expiry lies in [now, now + days]
getExpiringItems(items, now, days) ==
  {id \in DOMAIN items :
     /\ items[id].expiry # NULL
     /\ items[id].expiry >= now
     /\ items[id].expiry <= now + days}

GetExpiring(session, now, query) ==
  /\ IF Gate(session, "none") = 401
     THEN last' = Denial("getExpiring", 401)
     ELSE LET parsed == DaysQuery(query) IN
          IF ~parsed.ok
          THEN last' = Response("getExpiring", 500, "ZodError", "days", NoMovement)
          ELSE last' = Response("getExpiring", 200, "none", "",
                                [items |-> getExpiringItems(stockItems, now, parsed.days)])
  /\ UNCHANGED <<store, pc, tx, lock, side>>

InitExpiring ==
  /\ SideInit
  /\ users = [id \in UserIds |-> SeedUsers[id]]
  /\ stockItems \in [{1, 2} -> [quantity : {1}, expiry : Expiries]]
  /\ nextItemId = 3
  /\ allocations = Absent
  /\ movements = <<>>
  /\ pc = [p \in Procs |-> "idle"]
  /\ tx = [p \in Procs |-> NoArgs]
  /\ lock = NoProc
  /\ last = NoResponse

NextExpiring ==
  \E s \in {NoSession, 1}, now \in Nows, q \in DayQueries : GetExpiring(s, now, q)

SpecExpiring == InitExpiring /\ [][NextExpiring]_vars

\* ------------------- the store's create and read operations (MemStorage)
\* the columns an insert must give, and those it may leave out
\* (schema.ts 6-11, 14-24, 51-64, 97-107, and the test suites of MemStorage)
Required(kind) ==
  CASE kind = "specialty" -> {"name"}
    [] kind = "user" -> {"username", "password", "name", "role"}
    [] kind = "stockItem" -> {"name", "categoryId", "quantity", "createdBy"}
    [] kind = "movement" -> {"stockItemId", "toUserId", "quantity", "movedBy"}
Optional(kind) ==
  CASE kind = "specialty" -> {"description"}
    [] kind = "user" -> {"region", "avatar", "specialtyId"}
    [] kind = "stockItem" -> {"price", "specialtyId", "expiry", "uniqueNumber", "imageUrl", "notes"}
    [] kind = "movement" -> {"fromUserId", "notes"}
\* the column the store stamps with the time of the insert
Stamp(kind) == IF kind = "movement" THEN "movedAt" ELSE "createdAt"

\* what callers insert: every required column, and none, one or all of the
\* optional ones; a value is the text "given"
OneOf(kind) ==
  CASE kind = "specialty" -> "description"
    [] kind = "user" -> "region"
    [] kind = "stockItem" -> "price"
    [] kind = "movement" -> "fromUserId"
Inserts(kind) ==
  {[f \in Required(kind) \cup opt |-> "given"] : opt \in {{}, {OneOf(kind)}, Optional(kind)}}

\* the store's clock: one tick per insert
Clock == serials["specialty"] + serials["user"] + serials["stockItem"] + serials["movement"] - 4

\* the row of an insert, were a column that was left out to stay undefined
NewRow_LeavesUndefined(kind, id, data, time) ==
  [f \in {"id", Stamp(kind)} \cup Required(kind) \cup Optional(kind) |->
     IF f = "id" THEN id
     ELSE IF f = Stamp(kind) THEN time
     ELSE IF f \in DOMAIN data THEN data[f]
     ELSE "undefined"]

\* MemStorage.create*: the row gets the table's next id and the time of the
\* insert, the columns given, and null for every column left out
NewRow(kind, id, data, time) ==
  [f \in {"id", Stamp(kind)} \cup Required(kind) \cup Optional(kind) |->
     IF f = "id" THEN id
     ELSE IF f = Stamp(kind) THEN time
     ELSE IF f \in DOMAIN data THEN data[f]
     ELSE NullText]

\* createSpecialty, createUser, createStockItem, createMovement: insert and
\* return the row
Create(kind, data) ==
  /\ Clock < MaxRows
  /\ LET id == serials[kind]
         row == NewRow(kind, id, data, Clock) IN
     /\ tables' = [tables EXCEPT ![kind] = @ @@ (id :> row)]
     /\ serials' = [serials EXCEPT ![kind] = id + 1]
     /\ last' = Response("create", 0, "none", kind, row)
  /\ UNCHANGED <<store, pc, tx, lock, hits, usernames, nextUserId, reg>>

NoRow == Absent
\* getSpecialty, getUser, getStockItem, and find() in getMovements()
Get(kind, id) ==
  /\ last' = Response("get", 0, "none", kind,
                      IF id \in DOMAIN tables[kind] THEN tables[kind][id] ELSE NoRow)
  /\ UNCHANGED <<store, pc, tx, lock, side>>

InitStore ==
  /\ SideInit
  /\ users = Absent
  /\ stockItems = Absent
  /\ nextItemId = 1
  /\ allocations = Absent
  /\ movements = <<>>
  /\ pc = [p \in Procs |-> "idle"]
  /\ tx = [p \in Procs |-> NoArgs]
  /\ lock = NoProc
  /\ last = NoResponse

NextStore ==
  \/ \E kind \in Kinds : \E data \in Inserts(kind) : Create(kind, data)
  \/ \E kind \in Kinds, id \in 1..MaxRows : Get(kind, id)

SpecStore == InitStore /\ [][NextStore]_vars

\* ---------------------- storage.createMovement next to the transaction
\* what the suite of createMovement inserts (part_000 419-473): a record
\* without source and notes, and one with both
MovementInserts ==
  {[stockItemId |-> 1, toUserId |-> 2, quantity |-> 1, movedBy |-> 1],
   [stockItemId |-> 1, fromUserId |-> 1, toUserId |-> 2, quantity |-> 1,
    notes |-> "demo", movedBy |-> 1]}

\* the columns of the record, null where the insert leaves one out
InsertArgs(data) ==
  [stockItemId |-> data.stockItemId,
   quantity |-> data.quantity,
   fromUserId |-> IF Has(data, "fromUserId") THEN data.fromUserId ELSE NULL,
   toUserId |-> data.toUserId,
   movedBy |-> data.movedBy,
   notes |-> IF Has(data, "notes") THEN data.notes ELSE NullText]

\* storage.createMovement: the record is inserted into the log and returned;
\* the allocations are not looked at
CreateMovement(data) ==
  /\ CanEnter
  /\ Len(movements) < MaxLog
  /\ movements' = Append(movements, NewMovement(movements, InsertArgs(data)))
  /\ last' = Response("createMovement", 0, "none", "", movements'[Len(movements')])
  /\ UNCHANGED <<users, stockItems, nextItemId, allocations, pc, tx, lock, side>>

NextLedger ==
  \/ \E p \in Procs, u \in UserIds, b \in NormalBodies : PostMovement(p, u, b) /\ UNCHANGED side
  \/ \E p \in Procs, f \in FailPoints : TxCommit(p, f) /\ UNCHANGED side
  \/ \E u \in UserIds, b \in ItemBodies : PostStockItem(u, b) /\ UNCHANGED side
  \/ \E data \in MovementInserts : CreateMovement(data)

SpecLedger == Init /\ [][NextLedger]_vars

\* ------------------------- categories and the items that reference them
\* here tables holds the categories (id -> row), and a row of stockItems
\* carries its categoryId next to its quantity
CategoryIds == {1, 2}
\* multipart bodies of POST and PUT /api/stock-items: a quantity, and a
\* categoryId or none
CategoryBodies ==
  [quantity : {1}] \cup [quantity : {1}, categoryId : CategoryIds]

\* routes.ts 280-289 and 321-328: the numeric fields, converted when present
StockData(body) ==
  (IF Has(body, "quantity") THEN [quantity |-> body.quantity] ELSE Absent)
  @@ (IF Has(body, "categoryId") THEN [categoryId |-> body.categoryId] ELSE Absent)

\* extendedInsertStockItemSchema (schema.ts 124-149): quantity >= 0 and a
\* positive categoryId, both required
StockSchemaOk(data) ==
  /\ ItemSchemaOk(data)
  /\ Has(data, "categoryId") /\ data.categoryId > 0

\* storage.getStockItemsByCategory (not among the sources)
getStockItemsByCategory(items, id) == {i \in DOMAIN items : items[i].categoryId = id}

\* POST /api/stock-items (routes.ts 272-309), with the category it names
PostStockItemIn(session, body) ==
  /\ LET status == Gate(session, "canAddItems")
         data == StockData(body) IN
     IF status # 0
     THEN /\ last' = Denial("postStockItem", status)
          /\ UNCHANGED <<stockItems, nextItemId>>
     ELSE IF ~StockSchemaOk(data)
     THEN /\ last' = Response("postStockItem", 400, "InvalidArgument", "categoryId", NoMovement)
          /\ UNCHANGED <<stockItems, nextItemId>>
     ELSE /\ nextItemId <= MaxItems
          /\ stockItems' = stockItems @@ (nextItemId :> data)
          /\ nextItemId' = nextItemId + 1
          /\ last' = Response("postStockItem", 201, "none", "", NoMovement)
  /\ UNCHANGED <<users, allocations, movements, pc, tx, lock, side>>

\* PUT /api/stock-items/:id (routes.ts 311-373): the given fields are merged
\* into the row, unvalidated
PutStockItemIn(session, id, body) ==
  /\ LET status == Gate(session, "canEditItems")
         data == StockData(body) IN
     IF status # 0
     THEN /\ last' = Denial("putStockItem", status)
          /\ UNCHANGED stockItems
     ELSE IF id \notin DOMAIN stockItems
     THEN /\ last' = Response("putStockItem", 404, "NotFound", "", NoMovement)
          /\ UNCHANGED stockItems
     ELSE /\ stockItems' = [stockItems EXCEPT ![id] = data @@ @]
          /\ last' = Response("putStockItem", 200, "none", "", NoMovement)
  /\ UNCHANGED <<users, nextItemId, allocations, movements, pc, tx, lock, side>>

\* POST /api/categories (routes.ts 184-192)
PostCategory(session) ==
  /\ LET status == Gate(session, "canAddItems")
         id == serials["category"] IN
     IF status # 0
     THEN /\ last' = Denial("postCategory", status)
          /\ UNCHANGED <<tables, serials>>
     ELSE /\ id \in CategoryIds
          /\ tables' = [tables EXCEPT !["category"] = @ @@ (id :> [name |-> "given"])]
          /\ serials' = [serials EXCEPT !["category"] = id + 1]
          /\ last' = Response("postCategory", 201, "none", "", NoMovement)
  /\ UNCHANGED <<store, pc, tx, lock, hits, usernames, nextUserId, reg>>

\* DELETE /api/categories/:id (routes.ts 213-224): the items of the category
\* are looked up; with none, the handler goes on to the delete
DeleteCategoryCheck(p, session, id) ==
  /\ FreeSlot(p)
  /\ LET status == Gate(session, "canAddItems") IN
     IF status # 0
     THEN /\ last' = Denial("deleteCategory", status)
          /\ UNCHANGED <<pc, reg>>
     ELSE IF getStockItemsByCategory(stockItems, id) # {}
     THEN /\ last' = Response("deleteCategory", 400, "InUse", "", NoMovement)
          /\ UNCHANGED <<pc, reg>>
     ELSE /\ pc' = [pc EXCEPT ![p] = "delete"]
          /\ reg' = [reg EXCEPT ![p] = [id |-> id]]
          /\ last' = NoResponse
  /\ UNCHANGED <<store, tx, lock, hits, usernames, nextUserId, tables, serials>>

\* routes.ts 226-232: storage.deleteCategory and the answer
DeleteCategoryRun(p) ==
  /\ pc[p] = "delete"
  /\ LET id == reg[p].id IN
     IF id \in DOMAIN tables["category"]
     THEN /\ tables' = [tables EXCEPT !["category"] = [k \in DOMAIN @ \ {id} |-> @[k]]]
          /\ last' = Response("deleteCategory", 204, "none", "", NoMovement)
     ELSE /\ last' = Response("deleteCategory", 404, "NotFound", "", NoMovement)
          /\ UNCHANGED tables
  /\ pc' = [pc EXCEPT ![p] = "idle"]
  /\ reg' = [reg EXCEPT ![p] = NoReg]
  /\ UNCHANGED <<store, tx, lock, hits, usernames, nextUserId, serials>>

InitCategories ==
  /\ hits = [ip \in Ips |-> 0]
  /\ users = [id \in UserIds |-> SeedUsers[id]]
  /\ stockItems = Absent
  /\ nextItemId = 1
  /\ allocations = Absent
  /\ movements = <<>>
  /\ pc = [p \in Procs |-> "idle"]
  /\ tx = [p \in Procs |-> NoArgs]
  /\ lock = NoProc
  /\ last = NoResponse
  /\ usernames = Absent
  /\ nextUserId = 1
  /\ reg = [p \in Procs |-> NoReg]
  /\ tables = [k \in {"category"} |-> Absent]
  /\ serials = [k \in {"category"} |-> 1]

CategorySessions == {NoSession, 1}
NextCategories ==
  \/ \E s \in CategorySessions, b \in CategoryBodies : PostStockItemIn(s, b)
  \/ \E s \in CategorySessions, id \in 1..MaxItems, b \in CategoryBodies : PutStockItemIn(s, id, b)
  \/ \E s \in CategorySessions : PostCategory(s)
  \/ \E p \in Procs, s \in CategorySessions, id \in CategoryIds : DeleteCategoryCheck(p, s, id)
  \/ \E p \in Procs : DeleteCategoryRun(p)

SpecCategories == InitCategories /\ [][NextCategories]_vars

\* ------------------------------- the routes that write, and their guards
\* here tables holds the settings row, the specialties and the categories
SettingsBodies == {[theme |-> "dark"], [theme |-> "light"]}

\* storage.updateSystemSettings (not among the sources): the body is merged
\* into the settings
updateSystemSettings(settings, body) == body @@ settings

\* POST /api/system-settings (routes.ts 69-72): no middleware in front of it
PostSystemSettings(session, body) ==
  /\ tables' = [tables EXCEPT !["settings"] = updateSystemSettings(@, body)]
  /\ last' = Response("postSystemSettings", 200, "none", "", NoMovement)
  /\ UNCHANGED <<store, pc, tx, lock, hits, usernames, nextUserId, reg, serials>>

\* POST /api/specialties (routes.ts 102-115)
PostSpecialty(session, data) ==
  /\ LET status == Gate(session, "canManageSpecialties")
         id == serials["specialty"] IN
     IF status # 0
     THEN /\ last' = Denial("postSpecialty", status)
          /\ UNCHANGED <<tables, serials>>
     ELSE /\ id <= MaxRows
          /\ tables' = [tables EXCEPT !["specialty"] = @ @@ (id :> NewRow("specialty", id, data, 0))]
          /\ serials' = [serials EXCEPT !["specialty"] = id + 1]
          /\ last' = Response("postSpecialty", 201, "none", "", NoMovement)
  /\ UNCHANGED <<store, pc, tx, lock, hits, usernames, nextUserId, reg>>

WriterTables == {"settings", "specialty", "category"}
InitWriters ==
  /\ hits = [ip \in Ips |-> 0]
  /\ users = [id \in 1..Len(ApiUsers) |-> ApiUsers[id]]
  /\ stockItems = Absent
  /\ nextItemId = 1
  /\ allocations = Absent
  /\ movements = <<>>
  /\ pc = [p \in Procs |-> "idle"]
  /\ tx = [p \in Procs |-> NoArgs]
  /\ lock = NoProc
  /\ last = NoResponse
  /\ usernames = Absent
  /\ nextUserId = 1
  /\ reg = [p \in Procs |-> NoReg]
  /\ tables = [k \in WriterTables |-> IF k = "settings" THEN [theme |-> "light"] ELSE Absent]
  /\ serials = [k \in WriterTables \ {"settings"} |-> 1]

WriterSessions == {NoSession} \cup (1..Len(ApiUsers))
\* a request to one of the writing routes, as sent by session s
Write(s) ==
  \/ \E b \in SettingsBodies : PostSystemSettings(s, b)
  \/ \E data \in Inserts("specialty") : PostSpecialty(s, data)
  \/ PostCategory(s)
  \/ \E b \in CategoryBodies : PostStockItemIn(s, b)
  \/ \E id \in 1..MaxItems, b \in CategoryBodies : PutStockItemIn(s, id, b)

NextWriters == \E s \in WriterSessions : Write(s)

SpecWriters == InitWriters /\ [][NextWriters]_vars

\* --------------------- accounts: the limiter, and what the answers carry
\* here tables holds the users with all their columns, the password included
LimiterMax == 10             \* auth.ts 149: max

\* hashPassword (auth.ts 52-56), the salt left aside: a text that is not the
\* password
Hash(password) ==
  CASE password = "pw1" -> "hash1"
    [] password = "pw2" -> "hash2"
    [] OTHER -> "hash0"

\* comparePasswords (auth.ts 58-63)
comparePasswords(supplied, stored) == Hash(supplied) = stored

\* the destructuring, were it to keep the password
WithoutPassword_KeepsAll(user) == user

\* const { password, ...userWithoutPassword } = user
\* (auth.ts 176, 196, 213; routes.ts 489-492, 511, 541)
WithoutPassword(user) == [f \in DOMAIN user \ {"password"} |-> user[f]]

AccountSeed ==
  <<[id |-> 1, username |-> "ann", password |-> "hash1", name |-> "Ann", role |-> "admin"]>>
RegisterRequests == [username : {"ann", "bob"}, password : {"pw1"}, name : {"New"}]
Credentials == [username : {"ann", "zed"}, password : {"pw1", "pw2"}]
UserUpdates == {[name |-> "Renamed"], [password |-> "pw2"]}

\* express-rate-limit (auth.ts 147-153): the request is counted, and passes
\* while the count is at most max
Limited(ip) == hits[ip] + 1 > LimiterMax
Counted(ip) == [hits EXCEPT ![ip] = @ + 1]

\* the window of an IP ends and its count starts anew
WindowEnds(ip) ==
  /\ hits[ip] > 0
  /\ hits' = [hits EXCEPT ![ip] = 0]
  /\ UNCHANGED <<store, pc, tx, lock, last, usernames, nextUserId, reg, tables, serials>>

userByUsername(rows, username) == {id \in DOMAIN rows : rows[id].username = username}

\* POST /api/register (auth.ts 155-164): the limiter, then the lookup
Register(p, ip, body) ==
  /\ FreeSlot(p)
  /\ hits[ip] <= LimiterMax
  /\ hits' = Counted(ip)
  /\ IF Limited(ip)
     THEN /\ last' = Response("register", 429, "TooManyRequests", "", Absent)
          /\ UNCHANGED <<pc, reg>>
     ELSE IF userByUsername(tables["user"], body.username) # {}
     THEN /\ last' = Response("register", 400, "UsernameExists", "", Absent)
          /\ UNCHANGED <<pc, reg>>
     ELSE /\ serials["user"] <= Len(AccountSeed) + MaxRegistered
          /\ pc' = [pc EXCEPT ![p] = "insert"]
          /\ reg' = [reg EXCEPT ![p] = body]
          /\ last' = NoResponse
  /\ UNCHANGED <<store, tx, lock, usernames, nextUserId, tables, serials>>

\* auth.ts 164-184: the hash, storage.createUser, and the user as answered
RegisterInsert(p) ==
  /\ pc[p] = "insert"
  /\ LET id == serials["user"]
         user == [id |-> id, username |-> reg[p].username,
                  password |-> Hash(reg[p].password), name |-> reg[p].name,
                  role |-> "medicalRep"] IN
     IF UsernameFree([k \in DOMAIN tables["user"] |-> tables["user"][k].username], user.username)
     THEN /\ tables' = [tables EXCEPT !["user"] = @ @@ (id :> user)]
          /\ serials' = [serials EXCEPT !["user"] = id + 1]
          /\ users' = users @@ (id :> user.role)
          /\ last' = Response("register", 201, "none", "", WithoutPassword(user))
     ELSE /\ last' = Response("register", 500, "Internal", "", Absent)
          /\ UNCHANGED <<users, tables, serials>>
  /\ pc' = [pc EXCEPT ![p] = "idle"]
  /\ reg' = [reg EXCEPT ![p] = NoReg]
  /\ UNCHANGED <<stockItems, nextItemId, allocations, movements, tx, lock, hits,
                 usernames, nextUserId>>

\* POST /api/login (auth.ts 187-200) with the strategy (auth.ts 88-100): no
\* limiter in front of it
Login(ip, creds) ==
  /\ LET found == userByUsername(tables["user"], creds.username)
         ok == found # {} /\ \A id \in found :
                 comparePasswords(creds.password, tables["user"][id].password) IN
     last' = IF ok
             THEN Response("login", 200, "none", "",
                           WithoutPassword(tables["user"][CHOOSE id \in found : TRUE]))
             ELSE Response("login", 401, "LoginFailed", "", Absent)
  /\ UNCHANGED <<store, pc, tx, lock, side>>

\* GET /api/user (auth.ts 209-215)
GetCurrentUser(session) ==
  /\ last' = IF session \notin DOMAIN tables["user"]
             THEN Response("getCurrentUser", 401, "Unauthorized", "", Absent)
             ELSE Response("getCurrentUser", 200, "none", "",
                           WithoutPassword(tables["user"][session]))
  /\ UNCHANGED <<store, pc, tx, lock, side>>

\* GET /api/users (routes.ts 477-498)
GetUsers(session) ==
  /\ last' = IF Gate(session, "none") = 401
             THEN Response("getUsers", 401, "Unauthorized", "", Absent)
             ELSE Response("getUsers", 200, "none", "",
                           [users |-> {WithoutPassword(tables["user"][id]) :
                                         id \in DOMAIN tables["user"]}])
  /\ UNCHANGED <<store, pc, tx, lock, side>>

\* GET /api/users/:id (routes.ts 501-516)
GetUserById(session, id) ==
  /\ last' = IF Gate(session, "none") = 401
             THEN Response("getUser", 401, "Unauthorized", "", Absent)
             ELSE IF id \notin DOMAIN tables["user"]
             THEN Response("getUser", 404, "NotFound", "", Absent)
             ELSE Response("getUser", 200, "none", "", WithoutPassword(tables["user"][id]))
  /\ UNCHANGED <<store, pc, tx, lock, side>>

\* routes.ts 528-532: a password in the body is hashed before it is stored
UserData(body) ==
  IF Has(body, "password") THEN [password |-> Hash(body.password)] ELSE body

\* PUT /api/users/:id (routes.ts 519-547)
PutUserById(session, id, body) ==
  /\ LET status == Gate(session, "canManageUsers") IN
     IF status # 0
     THEN /\ last' = Response("putUser", status, "Denied", "", Absent)
          /\ UNCHANGED tables
     ELSE IF id \notin DOMAIN tables["user"]
     THEN /\ last' = Response("putUser", 404, "NotFound", "", Absent)
          /\ UNCHANGED tables
     ELSE /\ tables' = [tables EXCEPT !["user"][id] = UserData(body) @@ @]
          /\ last' = Response("putUser", 200, "none", "", WithoutPassword(tables'["user"][id]))
  /\ UNCHANGED <<store, pc, tx, lock, hits, usernames, nextUserId, reg, serials>>

InitAccounts ==
  /\ hits = [ip \in Ips |-> 0]
  /\ users = [id \in 1..Len(AccountSeed) |-> AccountSeed[id].role]
  /\ tables = [k \in {"user"} |-> [id \in 1..Len(AccountSeed) |-> AccountSeed[id]]]
  /\ serials = [k \in {"user"} |-> Len(AccountSeed) + 1]
  /\ usernames = Absent
  /\ nextUserId = 1
  /\ reg = [p \in Procs |-> NoReg]
  /\ stockItems = Absent
  /\ nextItemId = 1
  /\ allocations = Absent
  /\ movements = <<>>
  /\ pc = [p \in Procs |-> "idle"]
  /\ tx = [p \in Procs |-> NoArgs]
  /\ lock = NoProc
  /\ last = NoResponse

AccountSessions == {NoSession, 1, 2}
NextAccounts ==
  \/ \E p \in Procs, ip \in Ips, b \in RegisterRequests : Register(p, ip, b)
  \/ \E p \in Procs : RegisterInsert(p)
  \/ \E ip \in Ips, c \in Credentials : Login(ip, c)
  \/ \E ip \in Ips : WindowEnds(ip)
  \/ \E s \in AccountSessions : GetCurrentUser(s)
  \/ \E s \in AccountSessions : GetUsers(s)
  \/ \E s \in AccountSessions, id \in AccountSessions : GetUserById(s, id)
  \/ \E s \in AccountSessions, id \in AccountSessions, b \in UserUpdates : PutUserById(s, id, b)

SpecAccounts == InitAccounts /\ [][NextAccounts]_vars

\* ======================================================================
\* Properties
\* ======================================================================
\* the source a request names: a user when fromUserId is given, else the pool
NamesUser(b) == Has(b, "fromUserId") /\ b.fromUserId # 0
WholeQty(b) == b.quantity > 0 /\ b.quantity % 2 = 0
SourceHolds(b) ==
  IF NamesUser(b) THEN AllocOf(allocations, b.stockItemId, b.fromUserId)
  ELSE CentralAvailable(stockItems, allocations, b.stockItemId)

\* the ledger invariant of spec 3 and 8
LedgerInv ==
  \A i \in DOMAIN stockItems :
    /\ stockItems[i].quantity >= 0
    /\ SumAllocations(allocations, i) <= stockItems[i].quantity

\* C1 (as claimed): after any sequence of item creations, edits, deletions and
\* moves, every stock item has quantity >= 0 and the sum of its allocations is
\* at most its quantity.
CE_C1 == LedgerInv

\* a well-formed request for more than its source holds
Overdraws(b) ==
  /\ b.stockItemId \in DOMAIN stockItems
  /\ Has(b, "toUserId") /\ b.toUserId \in DOMAIN users
  /\ WholeQty(b)
  /\ b.quantity \div 2 > SourceHolds(b)

\* C2: a move for more than the source (the central pool, or the source user's
\* allocation) holds is answered InsufficientStock and leaves the tables - every
\* allocation, every item quantity, the movement log - and the transaction
\* slots as they were.
T_C2 ==
  /\ [](\A b \in MovementBodies : Overdraws(b) =>
          \A u \in UserIds : Handled(b, u).error = "InsufficientStock")
  /\ [][(last' # last /\ last' = Rejection("InsufficientStock")) =>
          UNCHANGED <<store, pc, tx, lock>>]_vars

\* an overdraw was refused while users held stock
W_C2 ==
  /\ last.op = "postMovement" /\ last.error = "InsufficientStock"
  /\ movements # <<>>
  /\ \E k \in DOMAIN allocations : allocations[k] > 0

\* rows other than `keys` are neither created, removed nor changed
OthersKept(keys) ==
  \A k \in (DOMAIN allocations \cup DOMAIN allocations') \ keys :
    /\ k \in DOMAIN allocations /\ k \in DOMAIN allocations'
    /\ allocations'[k] = allocations[k]

\* C3: a successful move of q from central inventory (no fromUserId) to user U
\* adds exactly q to U's allocation of the item, takes exactly q from the
\* derived central-available amount, and leaves the item's total quantity,
\* every other allocation and every other item as they were.
T_C3 ==
  [][\A p \in Procs :
       (pc[p] = "commit" /\ tx[p].fromUserId = NULL /\ TxCommit(p, "none")) =>
         LET i == tx[p].stockItemId
             U == tx[p].toUserId
             q == tx[p].quantity
         IN /\ AllocOf(allocations', i, U) = AllocOf(allocations, i, U) + q
            /\ i \in DOMAIN stockItems
            /\ stockItems' = stockItems
            /\ CentralAvailable(stockItems', allocations', i)
                 = CentralAvailable(stockItems, allocations, i) - q
            /\ OthersKept({<<i, U>>})]_vars

\* a move from the pool has topped up an allocation that already existed
W_C3 ==
  /\ last.status = 201 /\ last.body.fromUserId = NULL
  /\ AllocOf(allocations, last.body.stockItemId, last.body.toUserId) > last.body.quantity

\* C4: a successful move of q from user A to a different user B takes exactly
\* q from A's allocation and adds exactly q to B's; the item's total quantity,
\* the sum of its allocations and the central-available amount do not change.
T_C4 ==
  [][\A p \in Procs :
       (/\ pc[p] = "commit"
        /\ tx[p].fromUserId \notin {NULL, tx[p].toUserId}
        /\ TxCommit(p, "none")) =>
         LET i == tx[p].stockItemId
             A == tx[p].fromUserId
             B == tx[p].toUserId
             q == tx[p].quantity
         IN /\ AllocOf(allocations, i, A) >= q
            /\ AllocOf(allocations', i, A) = AllocOf(allocations, i, A) - q
            /\ AllocOf(allocations', i, B) = AllocOf(allocations, i, B) + q
            /\ stockItems' = stockItems
            /\ SumAllocations(allocations', i) = SumAllocations(allocations, i)
            /\ i \in DOMAIN stockItems
            /\ CentralAvailable(stockItems', allocations', i)
                 = CentralAvailable(stockItems, allocations, i)
            /\ OthersKept({<<i, A>>, <<i, B>>})]_vars

\* a user has passed stock on to another user
W_C4 ==
  /\ last.status = 201
  /\ last.body.fromUserId \notin {NULL, last.body.toUserId}
  /\ AllocOf(allocations, last.body.stockItemId, last.body.toUserId) >= last.body.quantity

\* the arguments a well-formed request stands for
CallOf(b, u) ==
  [stockItemId |-> b.stockItemId,
   quantity |-> b.quantity \div 2,
   fromUserId |-> IF NamesUser(b) THEN b.fromUserId ELSE NULL,
   toUserId |-> b.toUserId,
   movedBy |-> u,
   notes |-> IF Has(b, "notes") THEN b.notes ELSE NullText]

\* C5: a successful move appends exactly one record, whose stockItemId,
\* fromUserId (null for the central pool), toUserId, quantity, notes and movedBy
\* are those of the call, and returns it with the 201; a failed call appends
\* none.  The call a request with a whole quantity makes carries the request's
\* own values and the session user.
T_C5 ==
  /\ [](\A b \in MovementBodies : WholeQty(b) =>
          \A u \in UserIds : Handled(b, u).error = "ok" => Handled(b, u).args = CallOf(b, u))
  /\ [][/\ \A p \in Procs : pc[p] = "commit" =>
             \A f \in FailPoints : TxCommit(p, f) =>
                IF f = "none"
                THEN /\ Len(movements') = Len(movements) + 1
                     /\ SubSeq(movements', 1, Len(movements)) = movements
                     /\ LET m == movements'[Len(movements')] IN
                          /\ [k \in DOMAIN tx[p] |-> m[k]] = tx[p]
                          /\ \A j \in 1..Len(movements) : movements[j].id # m.id
                          /\ last'.status = 201
                          /\ last'.body = m
                ELSE /\ movements' = movements
                     /\ last'.status # 201
        /\ (\A p \in Procs : pc[p] = "commit" => pc'[p] = "commit") => movements' = movements]_vars

\* a second move, with notes, was recorded and returned
W_C5 ==
  /\ last.status = 201
  /\ Len(movements) = 2
  /\ last.body = movements[2]
  /\ last.body.notes = "demo"

\* what one record does to the allocation of row k
Effect(m, k) ==
  (IF k = <<m.stockItemId, m.toUserId>> THEN m.quantity ELSE 0)
  - (IF m.fromUserId # NULL /\ k = <<m.stockItemId, m.fromUserId>> THEN m.quantity ELSE 0)

\* C6: the transaction is all or nothing.  Every step, a persistence failure
\* inside a move included, either leaves allocations and log alone, or appends
\* one record and changes the allocations by exactly that record's transfer:
\* no source is reduced without its destination raised, no allocation changes
\* without its record, no record appears without its allocation change.
T_C6 ==
  [][\/ /\ allocations' = allocations
        /\ movements' = movements
     \/ /\ Len(movements') = Len(movements) + 1
        /\ SubSeq(movements', 1, Len(movements)) = movements
        /\ \A k \in DOMAIN allocations \cup DOMAIN allocations' :
             AllocOf(allocations', k[1], k[2])
               = AllocOf(allocations, k[1], k[2]) + Effect(movements'[Len(movements')], k)]_vars

\* a move failed inside the transaction while users held stock
W_C6 ==
  /\ last.op = "postMovement" /\ last.error = "Internal"
  /\ \E k \in DOMAIN allocations : allocations[k] > 0

NonNegative == \A k \in DOMAIN allocations : allocations[k] >= 0

\* what the source of a running transaction still holds
Affordable(p) ==
  /\ tx[p].stockItemId \in DOMAIN stockItems
  /\ tx[p].quantity <= Available(stockItems, allocations, tx[p])

\* C7: concurrent moves do not double-spend.  No two moves are past the
\* availability check at once, the source of a move that is past it still holds
\* the quantity until the move is written, and the writes of a move keep
\* sum(allocations) <= quantity and every allocation >= 0.
T_C7 ==
  /\ [](\A p, q \in Procs : (pc[p] = "commit" /\ pc[q] = "commit") => p = q)
  /\ [](\A p \in Procs : pc[p] = "commit" => Affordable(p))
  /\ [][\A p \in Procs : pc[p] = "commit" =>
          \A f \in FailPoints : (LedgerInv /\ NonNegative /\ TxCommit(p, f)) =>
             (LedgerInv' /\ NonNegative')]_vars

\* a second move against the same source is inside its transaction, for all
\* the source has left, while another request was turned away
W_C7 ==
  \E p \in Procs :
    /\ pc[p] = "commit"
    /\ movements # <<>>
    /\ movements[1].stockItemId = tx[p].stockItemId
    /\ movements[1].fromUserId = tx[p].fromUserId
    /\ tx[p].quantity = Available(stockItems, allocations, tx[p])
    /\ last.op = "postMovement" /\ last.status = 400

\* C8: the movement log is append-only: no step of the API changes or removes
\* a record that exists, so every later log starts with the earlier one.
T_C8 ==
  [][/\ Len(movements') >= Len(movements)
     /\ SubSeq(movements', 1, Len(movements)) = movements]_vars

\* the item of a recorded movement has been deleted, its record is still there
W_C8 ==
  /\ movements # <<>>
  /\ movements[1].stockItemId \notin DOMAIN stockItems
  /\ last.op = "deleteStockItem" /\ last.status = 204

\* C9 (as claimed): a move whose quantity is zero, negative or not a whole
\* number is rejected with InvalidArgument and changes no allocation, item or
\* movement record (stated for requests that name an existing item and a
\* source that holds stock).
CE_C9 ==
  [][\A p \in Procs : FreeSlot(p) =>
       \A b \in MovementBodies :
         (/\ ~WholeQty(b)
          /\ b.stockItemId \in DOMAIN stockItems
          /\ SourceHolds(b) >= 1) =>
           \A u \in UserIds : PostMovement(p, u, b) =>
              /\ last'.op = "postMovement"
              /\ last'.error = "InvalidArgument"
              /\ UNCHANGED <<store, pc, tx>>]_vars

ValidMove(b) ==
  /\ b.stockItemId \in DOMAIN stockItems
  /\ Has(b, "toUserId") /\ b.toUserId \in DOMAIN users
  /\ WholeQty(b)

\* availability as the claim words it: by the presence of fromUserId
ClaimedAvailable(b) ==
  IF Has(b, "fromUserId") THEN AllocOf(allocations, b.stockItemId, b.fromUserId)
  ELSE CentralAvailable(stockItems, allocations, b.stockItemId)

T_C12 ==
  [][allocations' # allocations =>
       \E p \in Procs : pc[p] = "commit" /\ TxCommit(p, "none")]_vars

\* a user holding stock was deleted: the row is still there
W_C12 ==
  /\ last.op = "deleteUser" /\ last.status = 204
  /\ \E k \in DOMAIN allocations : k[2] \notin DOMAIN users /\ allocations[k] > 0

\* the roles that may move stock
Movers == {"ceo", "marketer", "salesManager"}

\* C14: POST /api/movements runs the transaction only for a requester who is
\* logged in and holds canMoveStock (or is the ceo): without a session the
\* answer is 401, for a stockManager, an admin, a medicalRep or a role the
\* table does not know it is 403, and in both cases no allocation, item or
\* movement record changes and no transaction starts.
T_C14 ==
  /\ [](\A p \in Procs : pc[p] = "commit" =>
          tx[p].movedBy \in DOMAIN users /\ users[tx[p].movedBy] \in Movers)
  /\ [](\A j \in DOMAIN movements :
          movements[j].movedBy \in DOMAIN users /\ users[movements[j].movedBy] \in Movers)
  /\ [][\A p \in Procs : FreeSlot(p) =>
          \A s \in Sessions, b \in AuthBodies :
            (ApiPostMovement(p, s, b) /\ (s = NoSession \/ users[s] \notin Movers)) =>
               /\ last' = Denial("postMovement", IF s = NoSession THEN 401 ELSE 403)
               /\ UNCHANGED <<store, pc, tx, lock>>]_vars

\* a request was refused with 403 while stock was there to be moved and had
\* been moved before
W_C14 ==
  /\ last = Denial("postMovement", 403)
  /\ movements # <<>>
  /\ \E i \in DOMAIN stockItems : CentralAvailable(stockItems, allocations, i) > 0

\* the flags schema.ts stores as true for the roles other than ceo
GrantedPairs ==
  ({"marketer", "salesManager"} \X {"canAddItems", "canEditItems", "canRemoveItems", "canMoveStock"})
  \cup ({"stockManager"} \X {"canAddItems", "canEditItems", "canRemoveItems", "canAccessSettings"})
  \cup ({"admin"} \X {"canViewAll", "canAddItems", "canEditItems", "canRemoveItems",
                       "canManageUsers", "canViewReports", "canAccessSettings",
                       "canManageSpecialties", "canSeeAllSpecialties"})

\* C15: the permission check lets a user through exactly when the table stores
\* true for the user's role and the permission name - so never for a role or a
\* name the table does not have - or the user's role is ceo, whatever the name.
T_C15 ==
  [][\A s \in Sessions \ {NoSession}, perm \in PermissionNames :
       Authorize(s, perm) =>
         /\ last'.status \in {0, 403}
         /\ (last'.status = 0) <=> (users[s] = "ceo" \/ <<users[s], perm>> \in GrantedPairs)]_vars

\* the ceo was let through for a permission name the table does not have
W_C15 ==
  /\ last.op = "hasPermission" /\ last.status = 0
  /\ \A s \in DOMAIN users, perm \in PermissionNames :
       Gate(s, perm) = 0 /\ perm \notin Permissions => users[s] = "ceo"
  /\ \E s \in DOMAIN users : Gate(s, "canFly") = 0

\* the log record of a request body
Logged(m, b) ==
  /\ m.stockItemId = b.stockItemId
  /\ m.quantity = b.quantity \div 2
  /\ m.fromUserId = (IF Has(b, "fromUserId") THEN b.fromUserId ELSE NULL)
  /\ m.toUserId = b.toUserId
AfterFirst == Len(movements) = 1 /\ Logged(movements[1], Move30)
AfterSecond ==
  Len(movements) = 2 /\ Logged(movements[1], Move30) /\ Logged(movements[2], Move10)

\* C19: from item X with quantity 100 and no allocations, moving 30 to U1 is
\* accepted and gives U1 = 30 and 70 in the central pool; moving 10 from U1 to
\* U2 is then accepted and gives U1 = 20 and U2 = 10; a request to move 25
\* from U1 is then refused with InsufficientStock, and a refusal leaves the
\* allocations and the two records of the log as they were.
T_C19 ==
  /\ [](movements = <<>> =>
          \A u \in ScenarioMovers : Handled(Move30, u).error = "ok")
  /\ [](AfterFirst =>
          /\ AllocOf(allocations, 1, U1) = 30
          /\ CentralAvailable(stockItems, allocations, 1) = 70
          /\ \A u \in ScenarioMovers : Handled(Move10, u).error = "ok")
  /\ [](AfterSecond =>
          /\ AllocOf(allocations, 1, U1) = 20
          /\ AllocOf(allocations, 1, U2) = 10
          /\ \A u \in ScenarioMovers, b \in Move25 :
               Handled(b, u).error = "InsufficientStock")
  /\ [][(last' # last /\ last' = Rejection("InsufficientStock")) =>
          UNCHANGED <<store, pc, tx, lock>>]_vars

\* the scenario was played to its end: two records, then the refusal
W_C19 ==
  /\ AfterSecond
  /\ last = Rejection("InsufficientStock")
  /\ AllocOf(allocations, 1, U1) = 20 /\ AllocOf(allocations, 1, U2) = 10

UniqueUsernames ==
  \A i, j \in DOMAIN usernames : usernames[i] = usernames[j] => i = j

\* C17: usernames are unique under every interleaving of registrations, and
\* a registration whose username is taken when it is answered gets 400 and
\* creates no user.
CE_C17 ==
  /\ []UniqueUsernames
  /\ [][\A p \in Procs :
          (pc[p] = "create" /\ pc'[p] = "idle"
             /\ getUserByUsername(usernames, reg[p].username)) =>
            /\ last'.status = 400
            /\ UNCHANGED <<users, usernames>>]_vars

Registered == {id \in DOMAIN users : id > Len(RegisterSeed)}

\* C20: every user that POST /api/register creates has role medicalRep,
\* whatever role the body asked for, and holds no permission of the table.
T_C20 ==
  /\ [](\A id \in Registered :
          /\ users[id] = "medicalRep"
          /\ \A perm \in Permissions : ~hasPermission(id, perm))
  /\ [][\A p \in Procs : (pc[p] = "create" /\ last'.status = 201) =>
          /\ DOMAIN users' = DOMAIN users \cup {nextUserId}
          /\ users'[nextUserId] = "medicalRep"]_vars

\* cat, whose request asked for the role ceo, was registered
W_C20 ==
  \E id \in Registered : usernames[id] = "cat" /\ last.status = 201

\* the number of days a query asks for: 30 when it names none, 0 when what it
\* names is not a whole number of at least 1
AskedDays(q) ==
  IF ~Has(q, "days") \/ q.days = "" THEN 30
  ELSE CASE q.days = "1" -> 1 [] q.days = "2" -> 2 [] q.days = "30" -> 30 [] OTHER -> 0

\* C16: the endpoint answers with exactly the items whose expiry lies in the
\* closed interval [now, now + days] - none without an expiry, none expired
\* before now, none expiring after now + days -, with days = 30 when the
\* parameter is absent or empty, and rejects a days parameter that is below 1
\* or not an integer.
T_C16 ==
  [][\A now \in Nows, q \in DayQueries :
       GetExpiring(1, now, q) =>
         IF AskedDays(q) = 0
         THEN last'.status # 200
         ELSE /\ last'.status = 200
              /\ last'.body.items =
                   {id \in DOMAIN stockItems :
                      stockItems[id].expiry \in now .. (now + AskedDays(q))}]_vars

\* the default window was answered with its last day in and the next day out
W_C16 ==
  /\ last.op = "getExpiring" /\ last.status = 200
  /\ stockItems[1].expiry = 40 /\ stockItems[2].expiry = 41
  /\ last.body.items = {1}

SelfMoves ==
  {b \in MovementBodies :
     NamesUser(b) /\ Has(b, "toUserId") /\ b.fromUserId = b.toUserId /\ WholeQty(b)}

\* C26: a move from a user to the same user, who holds at least the moved
\* quantity, is carried out as such and leaves the user's allocation, the sum
\* of the item's allocations and the central pool as they were.
T_C26 ==
  /\ [](\A b \in SelfMoves :
          (b.stockItemId \in DOMAIN stockItems /\ SourceHolds(b) >= b.quantity \div 2) =>
            \A u \in UserIds :
              LET h == Handled(b, u)
                  after == TxApply(allocations, movements, h.args, "none").al IN
              /\ h.error = "ok"
              /\ h.args.fromUserId = b.fromUserId /\ h.args.toUserId = b.toUserId
              /\ AllocOf(after, b.stockItemId, b.toUserId)
                   = AllocOf(allocations, b.stockItemId, b.toUserId)
              /\ SumAllocations(after, b.stockItemId)
                   = SumAllocations(allocations, b.stockItemId)
              /\ CentralAvailable(stockItems, after, b.stockItemId)
                   = CentralAvailable(stockItems, allocations, b.stockItemId))
  /\ [][\A p \in Procs :
          (pc[p] = "commit" /\ pc'[p] = "idle" /\ tx[p].fromUserId = tx[p].toUserId) =>
            /\ AllocOf(allocations', tx[p].stockItemId, tx[p].toUserId)
                 = AllocOf(allocations, tx[p].stockItemId, tx[p].toUserId)
            /\ SumAllocations(allocations', tx[p].stockItemId)
                 = SumAllocations(allocations, tx[p].stockItemId)]_vars

\* a user moved stock to themselves and still holds it
W_C26 ==
  /\ last.op = "postMovement" /\ last.status = 201
  /\ last.body.fromUserId = last.body.toUserId
  /\ AllocOf(allocations, last.body.stockItemId, last.body.toUserId) >= last.body.quantity
  /\ last.body.quantity > 0

\* what the records of the log, taken together, do to row k
RECURSIVE Replayed(_, _)
Replayed(log, k) ==
  IF log = <<>> THEN 0
  ELSE Replayed(SubSeq(log, 1, Len(log) - 1), k) + Effect(log[Len(log)], k)

\* every allocation is what the log says it is
LogMatchesAllocations ==
  \A i \in 1..MaxItems, u \in UserIds :
    AllocOf(allocations, i, u) = Replayed(movements, <<i, u>>)

\* C24: in every reachable state every user's allocation of every item is
\* the sum of the quantities of the log's records of that item towards the
\* user minus the sum of those away from the user, records inserted with
\* storage.createMovement included.
CE_C24 == LogMatchesAllocations

\* C22: a category that a stock item references is not deleted (the request
\* gets 400 and the category stays), and in every reachable state the
\* categoryId of every stock item is the id of an existing category.
CE_C22 ==
  /\ [](\A i \in DOMAIN stockItems : stockItems[i].categoryId \in DOMAIN tables["category"])
  /\ [][(last' # last /\ last' = Response("deleteCategory", 400, "InUse", "", NoMovement)) =>
          UNCHANGED <<store, tables>>]_vars

\* C25: a request without a session to a route that writes (register and
\* login aside, POST /api/system-settings included) is answered 401 and
\* changes no table.
CE_C25 ==
  [][Write(NoSession) =>
       /\ last'.status = 401
       /\ UNCHANGED <<store, tables, serials>>]_vars

\* C21: once an IP has had 10 login or register requests counted in the
\* window, a further request of that IP to POST /api/login or POST
\* /api/register is refused by the limiter: it is answered 429 and reaches
\* neither the credential check nor the creation of a user.
CE_C21 ==
  [][\A ip \in Ips :
       (/\ hits[ip] >= LimiterMax
        /\ \/ \E p \in Procs, b \in RegisterRequests : Register(p, ip, b)
           \/ \E c \in Credentials : Login(ip, c)) =>
         /\ last'.status = 429
         /\ UNCHANGED <<users, tables, pc>>]_vars

\* the password hashes the users table holds
StoredHashes == {tables["user"][id].password : id \in DOMAIN tables["user"]}
\* a user object, as answered, that gives a hash away
Leaks(user) ==
  \/ "password" \in DOMAIN user
  \/ \E f \in DOMAIN user \ {"id"} : user[f] \in StoredHashes
AccountOps == {"register", "login", "getCurrentUser", "getUser", "putUser"}

\* C23: no answer of the register, login, current-user, user-list,
\* single-user and user-update routes carries a password field or a stored
\* password hash.
T_C23 ==
  /\ []((last.op \in AccountOps /\ last.status \in {200, 201}) => ~Leaks(last.body))
  /\ []((last.op = "getUsers" /\ last.status = 200) =>
          \A user \in last.body.users : ~Leaks(user))

\* a changed password was stored as a hash and the user answered without it
W_C23 ==
  /\ last.op = "putUser" /\ last.status = 200
  /\ tables["user"][last.body.id].password = "hash2"
  /\ last.body.username = tables["user"][last.body.id].username

====
